---- MODULE Spec2Model ----
(***************************************************************************)
(* Kernel perceptron (src/kernel_perceptron.py): class Kernel_perceptron,  *)
(* its constructor, the online training loop with its stopping rule, the   *)
(* OvA / OvO prediction and the confusion matrix.                          *)
(*                                                                         *)
(* Indices are 0-based as in the source: classes are 0..nclasses-1,        *)
(* training examples 0..n-1, rows of the classifier 0..rows-1.             *)
(* Error rates are kept as exact fractions <<numerator, denominator>>;     *)
(* every comparison of two rates is done by cross-multiplication.  The     *)
(* rates that occur are multiples of 1/size with size < 100, so the        *)
(* floating-point comparisons of the source decide the same way.           *)
(***************************************************************************)
EXTENDS Integers, Sequences, FiniteSets, TLC

VARIABLES
    nclasses,               \* self.nclasses
    classification_method,  \* self.classification_method
    labels,                 \* self.dataset.labels   (0..n-1 -> class)
    tlabels,                \* self.test_set.labels  (0..t-1 -> class)
    kernel_mtx,             \* self.kernel_mtx       (<<i, j>> -> Int)
    classifier,             \* self.classifier       (row -> column -> Int)
    has_classifier,         \* whether the attribute self.classifier exists
    OvO_indices,            \* self.OvO_indices      (row -> <<a, b>>)
    pc,                     \* "new", "ready", "train", "returned", "raised"
    raised,                 \* the exception that ended the last call
    max_epochs,             \* argument of train
    epsilon,                \* argument of train, a fraction <<num, den>>
    epoch,                  \* loop variable of train (epochs completed)
    data_idx,               \* loop variable of the online pass
    mistakes,               \* local of train
    prev_train_error,       \* local of train: Inf or a mistake count
    prev_test_error,        \* local of train: Inf or a mistake count
    train_error,            \* local of train: mistakes of the last epoch
    hist,                   \* per finished epoch <<mistakes, test mistakes>>
    ret                     \* the value the last finished call returned

vars == <<nclasses, classification_method, labels, tlabels, kernel_mtx,
          classifier, has_classifier, OvO_indices, pc, raised, max_epochs,
          epsilon, epoch, data_idx, mistakes, prev_train_error,
          prev_test_error, train_error, hist, ret>>

inputs == <<nclasses, classification_method, labels, tlabels, kernel_mtx>>

object == <<classifier, has_classifier, OvO_indices>>

locals == <<max_epochs, epsilon, epoch, data_idx, mistakes, prev_train_error,
            prev_test_error, train_error, hist>>

----------------------------------------------------------------------------
(* Bounds of the model.                                                    *)

MaxTrain == 2
MaxTest == 1
MaxEpochs == 3

(* Feature vectors the data sets are drawn from (2-D integer points).      *)
Feat == {<<1, 0>>, <<-1, 1>>}

(* Feature vectors of the 4-point scenarios.                               *)
Grid == {<<1, 0>>, <<0, 1>>, <<2, 1>>}

Methods == {"OvA", "OvO", "OvR"}

Inf == -1
None == [op |-> "none"]
NoError == "none"

----------------------------------------------------------------------------
(* Data set sizes and index maps.                                          *)

Size(l) == Cardinality(DOMAIN l)

n == Size(labels)

t == Size(tlabels)

train_indices == [i \in 0..(n - 1) |-> i]

test_indices == [i \in 0..(t - 1) |-> n + i]

RECURSIVE Pow(_, _)
Pow(b, e) == IF e = 0 THEN 1 ELSE b * Pow(b, e - 1)

Dot(x1, x2) == x1[1] * x2[1] + x1[2] * x2[2]

kernel_output(x1, x2, kernel_param) == Pow(Dot(x1, x2), kernel_param)

KernelOf(X, d) ==
    [p \in (DOMAIN X) \X (DOMAIN X) |-> kernel_output(X[p[1]], X[p[2]], d)]

----------------------------------------------------------------------------
(* Construction.                                                           *)

Zeros(rows, cols) == [r \in 0..(rows - 1) |-> [c \in 0..(cols - 1) |-> 0]]

RECURSIVE PairsFrom(_, _, _)
PairsFrom(idx1, idx2, k) ==
    IF idx1 >= k - 1 THEN <<>>
    ELSE IF idx2 >= k THEN PairsFrom(idx1 + 1, idx1 + 2, k)
    ELSE <<(<<idx1, idx2>>)>> \o PairsFrom(idx1, idx2 + 1, k)

BuildOvOIndices(k) ==
    LET s == PairsFrom(0, 1, k)
    IN  [p \in 0..(Len(s) - 1) |-> s[p + 1]]

OvORows(k) == (k * (k - 1)) \div 2

Construct ==
    /\ pc = "new"
    /\ pc' = "ready"
    /\ IF classification_method = "OvA"
         THEN /\ classifier' = Zeros(nclasses, n)
              /\ has_classifier' = TRUE
              /\ OvO_indices' = None
         ELSE IF classification_method = "OvO"
         THEN /\ classifier' = Zeros(OvORows(nclasses), n)
              /\ has_classifier' = TRUE
              /\ OvO_indices' = BuildOvOIndices(nclasses)
         ELSE /\ classifier' = None
              /\ has_classifier' = FALSE
              /\ OvO_indices' = None
    /\ UNCHANGED <<inputs, raised, locals, ret>>

----------------------------------------------------------------------------
(* Confidences and decisions.                                              *)

RECURSIVE SumTo(_, _)
SumTo(f, k) == IF k < 0 THEN 0 ELSE f[k] + SumTo(f, k - 1)

(* np.dot(self.classifier, K[data_idx, :]) with K the train x train block  *)
TrainConfidence(clf, i) ==
    [r \in DOMAIN clf |->
        SumTo([j \in 0..(n - 1) |->
                  clf[r][j] * kernel_mtx[<<train_indices[i], train_indices[j]>>]],
              n - 1)]

(* column p of np.dot(self.classifier, K) with K the train x test block    *)
TestConfidence(clf, p) ==
    [r \in DOMAIN clf |->
        SumTo([j \in 0..(n - 1) |->
                  clf[r][j] * kernel_mtx[<<train_indices[j], test_indices[p]>>]],
              n - 1)]

(* np.argmax of a vector indexed 0..k-1: first occurrence of the maximum   *)
(* (v is bound through a singleton set so that it is evaluated once)       *)
ArgMax(vec, k) ==
    CHOOSE i \in 0..(k - 1) : \E v \in {vec} :
        /\ \A j \in 0..(k - 1) : v[j] <= v[i]
        /\ \A j \in 0..(i - 1) : v[j] < v[i]

OvOVotes(conf) ==
    [c \in 0..(nclasses - 1) |->
        Cardinality({p \in DOMAIN OvO_indices :
                        \/ conf[p] > 0 /\ OvO_indices[p][1] = c
                        \/ ~(conf[p] > 0) /\ OvO_indices[p][2] = c})]

Decide(conf) ==
    IF classification_method = "OvA"
    THEN ArgMax(conf, nclasses)
    ELSE ArgMax(OvOVotes(conf), nclasses)

(* predict: the argument test_points is not read; the kernel block is      *)
(* always looked up with self.test_indices                                 *)
predict(clf, test_points) ==
    [p \in 0..(t - 1) |-> Decide(TestConfidence(clf, p))]

TestMistakes(clf) ==
    LET predictions == predict(clf, test_indices)
    IN  Cardinality({p \in 0..(t - 1) : predictions[p] # tlabels[p]})

----------------------------------------------------------------------------
(* Training.                                                               *)

OvADelta_ZeroIsPositive(conf, c, y) ==
    IF conf[c] >= 0 /\ c # y THEN -1
    ELSE IF conf[c] < 0 /\ c = y THEN 1
    ELSE 0

OvADelta(conf, c, y) ==
    IF conf[c] > 0 /\ c # y THEN -1
    ELSE IF conf[c] <= 0 /\ c = y THEN 1
    ELSE 0

OvOInc_Strict(conf, p, y) ==
    IF OvO_indices[p][1] = y /\ conf[p] < 0 THEN 1 ELSE 0

OvOInc(conf, p, y) ==
    IF OvO_indices[p][1] = y /\ conf[p] <= 0 THEN 1 ELSE 0

OvODec(conf, p, y) ==
    IF OvO_indices[p][2] = y /\ conf[p] > 0 THEN 1 ELSE 0

Abs(x) == IF x < 0 THEN -x ELSE x

TrainStalled_Swapped(prev, cur, eps) ==
    IF prev = Inf THEN FALSE
    ELSE (cur - prev) * eps[2] < eps[1] * n

TrainStalled_NoTolerance(prev, cur, eps) ==
    IF prev = Inf THEN FALSE
    ELSE prev - cur < 0

(* prev_train_error - train_error < epsilon                                *)
TrainStalled(prev, cur, eps) ==
    IF prev = Inf THEN FALSE
    ELSE (prev - cur) * eps[2] < eps[1] * n

(* test_error > prev_test_error + 1e3 * epsilon                            *)
TestRegressed(prev, cur, eps) ==
    IF prev = Inf THEN FALSE
    ELSE cur * eps[2] > prev * eps[2] + 1000 * eps[1] * t

Converged_BaselineFirst(ptrain, ctrain, ptest, ctest, eps) ==
    TrainStalled(ctrain, ctrain, eps) \/ TestRegressed(ctest, ctest, eps)

Converged(ptrain, ctrain, ptest, ctest, eps) ==
    TrainStalled(ptrain, ctrain, eps) \/ TestRegressed(ptest, ctest, eps)

Raise(e) ==
    /\ pc' = "raised"
    /\ raised' = e
    /\ ret' = None

(* Tolerances passed to train: the default 1e-5 and a coarse 0.75.  For    *)
(* both, and the error rates that occur, the floating-point comparisons    *)
(* of the source agree with the exact ones below.                          *)
Epsilons == {<<1, 100000>>, <<3, 4>>}

Train(me, eps) ==
    /\ pc = "ready"
    /\ max_epochs' = me
    /\ epsilon' = eps
    /\ IF me <= 0
         THEN /\ Raise("UnboundLocalError")
              /\ UNCHANGED <<epoch, data_idx, mistakes, prev_train_error,
                             prev_test_error, train_error, hist>>
         ELSE IF n = 0
         THEN /\ Raise("ZeroDivisionError")
              /\ UNCHANGED <<epoch, data_idx, mistakes, prev_train_error,
                             prev_test_error, train_error, hist>>
         ELSE IF ~has_classifier
         THEN /\ Raise("AttributeError")
              /\ UNCHANGED <<epoch, data_idx, mistakes, prev_train_error,
                             prev_test_error, train_error, hist>>
         ELSE /\ pc' = "train"
              /\ ret' = None
              /\ prev_train_error' = Inf
              /\ prev_test_error' = Inf
              /\ epoch' = 0
              /\ data_idx' = 0
              /\ mistakes' = 0
              /\ hist' = <<>>
              /\ UNCHANGED <<raised, train_error>>
    /\ UNCHANGED <<inputs, object>>

TrainBegin == \E me \in 0..MaxEpochs, eps \in Epsilons : Train(me, eps)

(* the scenario train(max_epochs=50) with the default epsilon=1e-5         *)
TrainScenario == Train(50, <<1, 100000>>)

TrainExample ==
    /\ pc = "train"
    /\ data_idx < n
    /\ LET confidence == TrainConfidence(classifier, data_idx)
           y == labels[data_idx]
           delta == [r \in DOMAIN classifier |->
                       IF classification_method = "OvA"
                       THEN OvADelta(confidence, r, y)
                       ELSE OvOInc(confidence, r, y) - OvODec(confidence, r, y)]
           found == [r \in DOMAIN classifier |->
                       IF classification_method = "OvA"
                       THEN Abs(OvADelta(confidence, r, y))
                       ELSE OvOInc(confidence, r, y) + OvODec(confidence, r, y)]
       IN  /\ classifier' =
                [r \in DOMAIN classifier |->
                    [classifier[r] EXCEPT ![data_idx] = @ + delta[r]]]
           /\ mistakes' = mistakes + SumTo(found, Size(classifier) - 1)
    /\ data_idx' = data_idx + 1
    /\ UNCHANGED <<inputs, has_classifier, OvO_indices, pc, raised, max_epochs,
                   epsilon, epoch, prev_train_error, prev_test_error,
                   train_error, hist, ret>>

TrainReturn(via) ==
    [op |-> "train", val |-> <<mistakes, n>>, via |-> via]

EndEpoch ==
    /\ pc = "train"
    /\ data_idx = n
    /\ LET test_error == TestMistakes(classifier)
       IN  /\ train_error' = mistakes
           /\ hist' = Append(hist, <<mistakes, test_error>>)
           /\ IF Converged(prev_train_error, mistakes,
                           prev_test_error, test_error, epsilon)
                THEN /\ pc' = "returned"
                     /\ ret' = TrainReturn("stop")
                     /\ UNCHANGED <<prev_train_error, prev_test_error, epoch,
                                    data_idx, mistakes>>
                ELSE /\ prev_train_error' = mistakes
                     /\ prev_test_error' = test_error
                     /\ epoch' = epoch + 1
                     /\ IF epoch + 1 < max_epochs
                          THEN /\ mistakes' = 0
                               /\ data_idx' = 0
                               /\ UNCHANGED <<pc, ret>>
                          ELSE /\ pc' = "returned"
                               /\ ret' = TrainReturn("exhausted")
                               /\ UNCHANGED <<data_idx, mistakes>>
    /\ UNCHANGED <<inputs, object, raised, max_epochs, epsilon>>

----------------------------------------------------------------------------
(* Prediction and evaluation on the object at rest.                        *)

AtRest == pc \in {"ready", "returned"}

Predict(test_points) ==
    /\ AtRest
    /\ IF has_classifier
         THEN /\ ret' = [op |-> "predict", arg |-> test_points,
                         val |-> predict(classifier, test_points)]
              /\ UNCHANGED <<pc, raised>>
         ELSE Raise("AttributeError")
    /\ UNCHANGED <<inputs, object, locals>>

PredictCall == \E test_points \in {train_indices, test_indices} : Predict(test_points)

(* np.unique(self.test_set.labels, return_counts=True)                     *)
uniq_vals == {tlabels[p] : p \in DOMAIN tlabels}

counts ==
    LET u == Cardinality(uniq_vals)
        rank(c) == Cardinality({d \in uniq_vals : d < c})
    IN  [k \in 0..(u - 1) |->
            LET c == CHOOSE c \in uniq_vals : rank(c) = k
            IN  Cardinality({p \in DOMAIN tlabels : tlabels[p] = c})]

(* the loop of lines 206-209: the number of wrong predictions with true    *)
(* label y and predicted label q                                           *)
ErrorCount(predictions, y, q) ==
    Cardinality({p \in DOMAIN tlabels :
                    /\ predictions[p] # tlabels[p]
                    /\ tlabels[p] = y
                    /\ predictions[p] = q})

(* np.divide(conf_mtx, np.transpose(counts)): counts is one-dimensional,   *)
(* its transpose is itself, and it is broadcast along the last axis, the   *)
(* column index q                                                          *)
Divisor(cnt, y, q) == IF Size(cnt) = 1 THEN cnt[0] ELSE cnt[q]

confusion_matrix(predictions, cnt) ==
    [y \in 0..(nclasses - 1) |->
        [q \in 0..(nclasses - 1) |->
            <<ErrorCount(predictions, y, q), Divisor(cnt, y, q)>>]]

ConfusionMatrix ==
    /\ AtRest
    /\ LET cnt == counts
       IN  IF ~has_classifier
             THEN Raise("AttributeError")
             ELSE IF Size(cnt) # nclasses /\ Size(cnt) # 1
             THEN Raise("ValueError")
             ELSE /\ ret' = [op |-> "confusion_matrix",
                             val |-> confusion_matrix(
                                        predict(classifier, test_indices), cnt)]
                  /\ UNCHANGED <<pc, raised>>
    /\ UNCHANGED <<inputs, object, locals>>

----------------------------------------------------------------------------
(* Specifications.                                                         *)

Fn(len, S) == [0..(len - 1) -> S]

InitObject ==
    /\ classifier = None
    /\ has_classifier = FALSE
    /\ OvO_indices = None
    /\ pc = "new"
    /\ raised = NoError
    /\ max_epochs = 0
    /\ epsilon = <<1, 100000>>
    /\ epoch = 0
    /\ data_idx = 0
    /\ mistakes = 0
    /\ prev_train_error = Inf
    /\ prev_test_error = Inf
    /\ train_error = None
    /\ hist = <<>>
    /\ ret = None

InitData(classes, methods, ntrains, ntests, testclasses, feats) ==
    /\ nclasses \in classes
    /\ classification_method \in methods
    /\ \E ntrain \in ntrains, ntest \in ntests :
          /\ labels \in Fn(ntrain, 0..(nclasses - 1))
          /\ tlabels \in Fn(ntest, (0..(nclasses - 1)) \cap testclasses)
          /\ \E X \in Fn(ntrain + ntest, feats) : kernel_mtx = KernelOf(X, 1)

(* Any configuration a caller can pass, valid or not, one or two classes.  *)
Init ==
    /\ InitData(1..2, Methods, 0..MaxTrain, 1..MaxTest, 0..1, Feat)
    /\ InitObject

Next ==
    \/ Construct
    \/ TrainBegin
    \/ TrainExample
    \/ EndEpoch
    \/ PredictCall
    \/ ConfusionMatrix

Spec == Init /\ [][Next]_vars

(* Three classes, both decompositions, one held-out point of class 0.      *)
Init3 ==
    /\ InitData({3}, {"OvA", "OvO"}, 1..MaxTrain, {1}, {0}, Feat)
    /\ InitObject

Spec3 == Init3 /\ [][Next]_vars

(* Two classes, a held-out set of three points in which both classes      *)
(* occur.                                                                  *)
InitEval ==
    /\ InitData({2}, {"OvA", "OvO"}, 1..MaxTrain, {3}, 0..1, Feat)
    /\ uniq_vals = 0..1
    /\ InitObject

SpecEval == InitEval /\ [][Next]_vars

(* A homogeneous linear separator with small integer coefficients: the     *)
(* degree-1 kernel block then separates class 0 from class 1.              *)
Separates(X, l) ==
    \E w \in (-3..3) \X (-3..3) :
        \A i \in DOMAIN l :
            IF l[i] = 0 THEN Dot(w, X[i]) > 0 ELSE Dot(w, X[i]) < 0

(* The scenario of 4 separable training points in 2 classes, one held-out  *)
(* point, train(50, 1e-5).                                                 *)
InitSep ==
    /\ nclasses = 2
    /\ classification_method \in {"OvA", "OvO"}
    /\ \E X \in Fn(5, Grid) :
          /\ labels \in Fn(4, 0..1)
          /\ {labels[i] : i \in DOMAIN labels} = 0..1
          /\ Separates(X, labels)
          /\ tlabels \in Fn(1, 0..1)
          /\ kernel_mtx = KernelOf(X, 1)
    /\ InitObject

NextScenario ==
    \/ Construct
    \/ TrainScenario
    \/ TrainExample
    \/ EndEpoch
    \/ PredictCall
    \/ ConfusionMatrix

SpecSep == InitSep /\ [][NextScenario]_vars

(* The scenario of 4 training points, two per class, in which two points   *)
(* of different classes have the same feature vector.                      *)
InitNonSep ==
    /\ nclasses = 2
    /\ classification_method \in {"OvA", "OvO"}
    /\ \E X \in Fn(5, Feat) :
          /\ labels \in Fn(4, 0..1)
          /\ \A c \in 0..1 : Cardinality({i \in DOMAIN labels : labels[i] = c}) = 2
          /\ \E i, j \in DOMAIN labels : labels[i] # labels[j] /\ X[i] = X[j]
          /\ tlabels \in Fn(1, 0..1)
          /\ kernel_mtx = KernelOf(X, 1)
    /\ InitObject

NextNonSep ==
    \/ Construct
    \/ TrainBegin
    \/ TrainScenario
    \/ TrainExample
    \/ EndEpoch
    \/ PredictCall
    \/ ConfusionMatrix

SpecNonSep == InitNonSep /\ [][NextNonSep]_vars

----------------------------------------------------------------------------
(* C1.  Constructing the classifier fails with InvalidConfiguration        *)
(* whenever nclasses < 2, n <= 0 or the mode is neither OvA nor OvO, and   *)
(* no classifier with a weight matrix is produced.                         *)

InvalidConfiguration ==
    nclasses < 2 \/ n <= 0 \/ classification_method \notin {"OvA", "OvO"}

C1_ConstructionFails ==
    (pc = "ready" /\ InvalidConfiguration)
        => (raised = "InvalidConfiguration" /\ ~has_classifier)

(* C2.  On a validly configured classifier, predict returns one label per  *)
(* point passed in, each label in 0..nclasses-1.                           *)
C2_OneLabelPerPoint ==
    (ret.op = "predict" /\ ~InvalidConfiguration)
        => /\ Size(ret.val) = Size(ret.arg)
           /\ \A p \in DOMAIN ret.val : ret.val[p] \in 0..(nclasses - 1)

----------------------------------------------------------------------------
(* C3.  The stopping rule: after epoch e the run stops exactly when        *)
(* e > 1 and (train error of e-1 minus train error of e) < tol or test     *)
(* error of e > test error of e-1 + 1000 tol; otherwise the next epoch     *)
(* runs, up to max_epochs; the value returned is the train error of the    *)
(* last epoch run.  With the baselines at +infinity epoch 1 never stops.   *)

C3_Stops(e) ==
    /\ e > 1
    /\ \/ (hist[e - 1][1] - hist[e][1]) * epsilon[2] < epsilon[1] * n
       \/ (hist[e][2] - hist[e - 1][2]) * epsilon[2] > 1000 * epsilon[1] * t

C3_StoppingRule ==
    LET k == Len(hist)
    IN  /\ pc = "train" =>
              /\ k < max_epochs
              /\ \A e \in 1..k : ~C3_Stops(e)
        /\ pc = "returned" =>
              /\ k \in 1..max_epochs
              /\ \A e \in 1..(k - 1) : ~C3_Stops(e)
              /\ C3_Stops(k) \/ k = max_epochs
              /\ train_error = hist[k][1]
              /\ ret.op = "train" => ret.val = <<hist[k][1], n>>

C3_Witness ==
    /\ pc = "returned"
    /\ ret.op = "train"
    /\ Len(hist) >= 2
    /\ Len(hist) < max_epochs
    /\ C3_Stops(Len(hist))

(* C7.  Train errors are non-increasing from epoch to epoch, except        *)
(* possibly at the final epoch of a run that the stopping rule ended.      *)

StoppedByRule == pc = "returned" /\ epoch < max_epochs

C7_NonIncreasing ==
    \A e \in 2..Len(hist) :
        (e < Len(hist) \/ ~StoppedByRule) => hist[e][1] <= hist[e - 1][1]

C7_Witness ==
    /\ StoppedByRule
    /\ Len(hist) >= 3
    /\ hist[Len(hist)][1] > hist[Len(hist) - 1][1]

----------------------------------------------------------------------------
(* The confidence of decision function r for training example i, from the  *)
(* classifier as it stands: sum over j of classifier[r][j] * K[i][j].      *)
RECURSIVE StepConfidence(_, _, _)
StepConfidence(r, i, j) ==
    IF j < 0 THEN 0
    ELSE classifier[r][j] * kernel_mtx[<<i, j>>] + StepConfidence(r, i, j - 1)

ExampleStep == pc = "train" /\ data_idx' = data_idx + 1

Changed(r) == classifier'[r][data_idx] # classifier[r][data_idx]

OtherColumnsKept ==
    \A r \in DOMAIN classifier : \A j \in 0..(n - 1) :
        j # data_idx => classifier'[r][j] = classifier[r][j]

(* C9.  OvA step on example i with label y: for every class c, with the    *)
(* confidence taken from the classifier before the step, weight (c, i)     *)
(* goes down by 1 if confidence[c] > 0 and c # y, up by 1 if               *)
(* confidence[c] <= 0 and c = y, and is unchanged otherwise; each change   *)
(* adds 1 to the mistake counter; no other column changes.                 *)
C9_OvAStepAction ==
    (ExampleStep /\ classification_method = "OvA") =>
        LET i == data_idx
            y == labels[i]
            conf(c) == StepConfidence(c, i, n - 1)
        IN  /\ DOMAIN classifier' = 0..(nclasses - 1)
            /\ \A c \in 0..(nclasses - 1) :
                  /\ (conf(c) > 0 /\ c # y)
                        => classifier'[c][i] = classifier[c][i] - 1
                  /\ (conf(c) <= 0 /\ c = y)
                        => classifier'[c][i] = classifier[c][i] + 1
                  /\ ~(conf(c) > 0 /\ c # y) /\ ~(conf(c) <= 0 /\ c = y)
                        => classifier'[c] = classifier[c]
            /\ mistakes' = mistakes
                  + Cardinality({c \in 0..(nclasses - 1) : Changed(c)})
            /\ OtherColumnsKept

C9_OvAStep == [][C9_OvAStepAction]_vars

C9_Witness ==
    /\ pc = "train"
    /\ classification_method = "OvA"
    /\ nclasses = 3
    /\ data_idx = n
    /\ \E c \in 0..2 : classifier[c][n - 1] < 0
    /\ \E c \in 0..2 : classifier[c][n - 1] > 0
    /\ \E c \in 0..2 : classifier[c][n - 1] = 0

(* C10.  OvO step on example i with label y: the pair index lists every    *)
(* pair a < b once, ordered by a then b; at row p with pair (a, b) the     *)
(* weight (p, i) goes up by 1 if y = a and confidence[p] <= 0, down by 1   *)
(* if y = b and confidence[p] > 0, and row p is unchanged otherwise, in    *)
(* particular when y is neither a nor b; so at most nclasses-1 rows        *)
(* change, each by 1, in column i only.                                    *)
PairIndexInOrder ==
    /\ DOMAIN OvO_indices = 0..((nclasses * (nclasses - 1)) \div 2 - 1)
    /\ \A a \in 0..(nclasses - 1) : \A b \in (a + 1)..(nclasses - 1) :
          \E p \in DOMAIN OvO_indices : OvO_indices[p] = <<a, b>>
    /\ \A p \in DOMAIN OvO_indices :
          /\ OvO_indices[p][1] < OvO_indices[p][2]
          /\ OvO_indices[p][2] <= nclasses - 1
          /\ OvO_indices[p][1] >= 0
    /\ \A p, q \in DOMAIN OvO_indices :
          p < q => \/ OvO_indices[p][1] < OvO_indices[q][1]
                   \/ /\ OvO_indices[p][1] = OvO_indices[q][1]
                      /\ OvO_indices[p][2] < OvO_indices[q][2]

C10_OvOStepAction ==
    (ExampleStep /\ classification_method = "OvO") =>
        LET i == data_idx
            y == labels[i]
            conf(p) == StepConfidence(p, i, n - 1)
        IN  /\ PairIndexInOrder
            /\ DOMAIN classifier' = DOMAIN OvO_indices
            /\ \A p \in DOMAIN OvO_indices :
                  LET a == OvO_indices[p][1]
                      b == OvO_indices[p][2]
                  IN  /\ (y = a /\ conf(p) <= 0)
                            => classifier'[p][i] = classifier[p][i] + 1
                      /\ (y = b /\ conf(p) > 0)
                            => classifier'[p][i] = classifier[p][i] - 1
                      /\ ~(y = a /\ conf(p) <= 0) /\ ~(y = b /\ conf(p) > 0)
                            => classifier'[p] = classifier[p]
                      /\ (y # a /\ y # b) => classifier'[p] = classifier[p]
            /\ mistakes' = mistakes
                  + Cardinality({p \in DOMAIN OvO_indices : Changed(p)})
            /\ Cardinality({p \in DOMAIN OvO_indices : Changed(p)})
                  <= nclasses - 1
            /\ OtherColumnsKept

C10_OvOStep == [][C10_OvOStepAction]_vars

C10_Witness ==
    /\ pc = "train"
    /\ classification_method = "OvO"
    /\ nclasses = 3
    /\ OvO_indices = (0 :> <<0, 1>> @@ 1 :> <<0, 2>> @@ 2 :> <<1, 2>>)
    /\ data_idx = n
    /\ labels[n - 1] = 1
    /\ classifier[0][n - 1] < 0
    /\ classifier[2][n - 1] > 0
    /\ classifier[1][n - 1] = 0

----------------------------------------------------------------------------
StoppedAfter == Len(hist)

(* C4.  In the separable 4-point scenario train(50, 1e-5) ends through the *)
(* stopping rule before epoch 50 and returns train_error = 0.              *)
C4_ReturnsZero ==
    pc = "returned" =>
        /\ StoppedByRule
        /\ StoppedAfter < 50
        /\ train_error = 0

(* C4 as amended: it ends through the stopping rule before epoch 50; it    *)
(* returns 0 only when the epoch before the last was also free of          *)
(* mistakes; otherwise it returns the non-zero error of the epoch whose    *)
(* train error did not improve or whose test error went up.                *)
C4_StopsBeforeFifty ==
    pc = "returned" =>
        LET k == StoppedAfter
        IN  /\ StoppedByRule
            /\ k \in 2..49
            /\ train_error = 0 => hist[k - 1][1] = 0
            /\ train_error # 0 =>
                  \/ hist[k][1] >= hist[k - 1][1]
                  \/ hist[k][2] > hist[k - 1][2]

C4_Witness ==
    /\ pc = "returned"
    /\ StoppedByRule
    /\ train_error > 0
    /\ hist[StoppedAfter][1] > hist[StoppedAfter - 1][1]
    /\ hist[StoppedAfter][2] = hist[StoppedAfter - 1][2]

(* C5.  Once train has returned 0, predict on the training points returns  *)
(* every training example's label.                                         *)
C5_ReproducesTrainingLabels ==
    (/\ pc = "returned"
     /\ train_error = 0
     /\ ret.op = "predict"
     /\ ret.arg = train_indices)
        => ret.val = labels

(* C6.  In the non-separable scenario no epoch has train error zero, and   *)
(* train ends by exhausting max_epochs, not by the stopping rule.          *)
C6_ExhaustsEpochs ==
    /\ \A e \in 1..Len(hist) : hist[e][1] > 0
    /\ pc = "returned" => ~StoppedByRule

(* C6 as amended: no epoch has train error zero; train ends by the         *)
(* stopping rule at the first epoch that fails to improve, which comes     *)
(* within 9 epochs, and it exhausts max_epochs only when every epoch it    *)
(* ran improved strictly on the one before.                                *)
C6_NeverZeroStopsByRule ==
    /\ \A e \in 1..Len(hist) : hist[e][1] > 0
    /\ pc = "returned" =>
          /\ max_epochs > 8 => (StoppedByRule /\ StoppedAfter <= 9)
          /\ ~StoppedByRule =>
                \A e \in 2..Len(hist) : hist[e][1] < hist[e - 1][1]

C6_Witness ==
    /\ pc = "returned"
    /\ max_epochs = 50
    /\ StoppedByRule
    /\ train_error > 0

(* C8.  With every class in the test set, cell (y, q) of the confusion     *)
(* matrix is the number of test points of class y predicted q # y divided  *)
(* by the number of test points of class y; the diagonal is zero and no    *)
(* cell exceeds 1.                                                         *)
C8_RowNormalised ==
    (ret.op = "confusion_matrix" /\ uniq_vals = 0..(nclasses - 1)) =>
        LET predictions == predict(classifier, test_indices)
            ofclass(y) == {p \in DOMAIN tlabels : tlabels[p] = y}
        IN  \A y, q \in 0..(nclasses - 1) :
                LET cell == ret.val[y][q]
                    wrong == {p \in ofclass(y) : predictions[p] = q /\ q # y}
                IN  /\ cell[1] * Cardinality(ofclass(y))
                          = Cardinality(wrong) * cell[2]
                    /\ y = q => cell[1] = 0
                    /\ cell[1] <= cell[2]

====
